---- MODULE Spec2Model ----
(***************************************************************************)
(* Bad-block discovery, translation and clearing of libpmem2               *)
(* (src/src/libpmem2/badblocks_ndctl.c).                                   *)
(*                                                                         *)
(* The platform (libndctl, the extent query, fallocate) is the             *)
(* environment: every answer it gives is chosen from a small set when the  *)
(* code asks for it and is recorded in a variable.  64-bit quantities are  *)
(* naturals (the values used stay far below 2^64); the 32-bit `unsigned`   *)
(* casts of the code are reductions modulo 2^UIntBits.                     *)
(***************************************************************************)
EXTENDS Integers, Sequences, FiniteSets, TLC

VARIABLES
    pc,        \* position of the running operation
    platform,  \* what the topology / defect interface answers for the path
    bbs,       \* struct badblocks handed to / back from the operation
    bbv,       \* the provisional record vector (VEC) of badblocks_get
    exts,      \* struct extents of badblocks_get (NULL when not allocated)
    extents,   \* long extents of badblocks_get
    bb_found,  \* int bb_found of badblocks_get
    b,         \* loop index over bad blocks
    e,         \* loop index over extents
    bb_beg,    \* bb_beg of badblocks_get (rewritten inside the extent loop)
    bb_end,    \* bb_end of badblocks_get (rewritten inside the extent loop)
    ret,       \* value the operation returns
    calls,     \* interface calls issued so far, in order
    cmds,      \* bus command objects of the range being cleared
    stored,    \* for each record pushed by badblocks_get: the overlap it came from
    file,      \* the file's block size and extent map, once the code asked for it
    arg,       \* the struct badblocks the caller passed (NULL: none)
    own        \* the struct badblocks of badblocks_new, the caller's, and which
               \* of them the operation's bbs points to

vars == <<pc, platform, bbs, bbv, exts, extents, bb_found, b, e,
          bb_beg, bb_end, ret, calls, cmds, stored, file, arg, own>>

----------------------------------------------------------------------------
(* Bounds of the model *)

\* width of `unsigned` in the model (32 in the build)
UIntBits == 16
\* at most this many raw defect records are reported by the platform
MaxDefects == 2
\* at most this many extents are reported for a file
MaxExtents == 2

(* Program constants *)

\* bytes per sector of the platform's defect records
SectorSize == 512
\* the platform's "unknown" sentinel, (unsigned long long)-1
ULLONG_MAX == -1
\* struct bad_block.nhealthy: unknown healthy replica
NO_HEALTHY_REPLICA == -1

----------------------------------------------------------------------------
(* Arithmetic of the code *)

UIntMod == 2 ^ UIntBits

\* the cast (unsigned)(x)
ToUnsigned(x) == x % UIntMod

\* convert sectors to bytes
SEC2B(n) == n * SectorSize

RECURSIVE BitAnd(_, _)
\* a & b
BitAnd(x, y) ==
    IF x = 0 \/ y = 0 THEN 0
    ELSE (x % 2) * (y % 2) + 2 * BitAnd(x \div 2, y \div 2)

\* round size up to the next multiple of align
ALIGN_UP(size, align) == ((size + align - 1) \div align) * align

Max(x, y) == IF x > y THEN x ELSE y
Min(x, y) == IF x < y THEN x ELSE y

\* struct bad_block
BadBlock(off, len) == [offset |-> off, length |-> len, nhealthy |-> NO_HEALTHY_REPLICA]

\* struct badblocks after memset(bbs, 0, sizeof(*bbs))
ZeroBbs == [ns_resource |-> 0, bb_cnt |-> 0, bbv |-> <<>>]

----------------------------------------------------------------------------
(* The platform: topology lookup and defect records *)

\* raw defect records: offset and len in sectors
RawRecords == {[offset |-> 0, len |-> 1], [offset |-> 2, len |-> 2],
               [offset |-> 3, len |-> 1], [offset |-> 3, len |-> 2]}

RawLists == UNION {[1..n -> RawRecords] : n \in 0..MaxDefects}

\* a namespace: mode, and what its kind-specific accessors and its region report
Namespaces ==
    [mode : {"fsdax"}, resource : {4096}, size : {4096}, region_resource : {4096}]
    \cup
    [mode : {"devdax"}, resource : {4096, 4096 + 1280}, size : {1024, 2048},
     region_resource : {4096}]
    \cup
    {[mode |-> "devdax", resource |-> ULLONG_MAX, size |-> 1024,
      region_resource |-> 4096],
     [mode |-> "devdax", resource |-> 4096, size |-> ULLONG_MAX,
      region_resource |-> 4096],
     [mode |-> "devdax", resource |-> 4096, size |-> 1024,
      region_resource |-> ULLONG_MAX]}

\* answers of os_stat and ndctl_region_namespace for a path
Lookups == {"new_failed", "stat_failed", "lookup_failed", "no_region",
            "no_namespace", "found"}

NoNamespace == [mode |-> "none", resource |-> 0, size |-> 0, region_resource |-> 0]

\* the platform before it has been asked anything
NoPlatform == [lookup |-> "none", ns |-> NoNamespace, raw |-> <<>>]

\* a filesystem-backed namespace with one defect of 16 sectors at sector 1,000,000
ScenarioPlatform ==
    [lookup |-> "found",
     ns |-> [mode |-> "fsdax", resource |-> 4096, size |-> 4096,
             region_resource |-> 4096],
     raw |-> <<[offset |-> 1000000, len |-> 16]>>]

Platforms ==
    [lookup : Lookups \ {"found"}, ns : {NoNamespace}, raw : {<<>>}]
    \cup [lookup : {"found"}, ns : Namespaces, raw : RawLists]
    \cup {ScenarioPlatform}

----------------------------------------------------------------------------
(* Namespace Bounds Resolver *)

\* badblocks_get_namespace_bounds: the three kind-specific branches read the
\* namespace's resource and size through different accessors and are otherwise
\* the same; ns.resource and ns.size are what the accessor of the namespace's
\* kind returned.
badblocks_get_namespace_bounds(ns) ==
    IF ns.resource = ULLONG_MAX THEN [rc |-> -1, ns_offset |-> 0, ns_size |-> 0]
    ELSE IF ns.size = ULLONG_MAX THEN [rc |-> -1, ns_offset |-> 0, ns_size |-> 0]
    ELSE IF ns.region_resource = ULLONG_MAX
         THEN [rc |-> -1, ns_offset |-> 0, ns_size |-> 0]
    ELSE [rc |-> 0, ns_offset |-> ns.resource - ns.region_resource,
          ns_size |-> ns.size]

----------------------------------------------------------------------------
(* Defect Collector *)

\* the test that skips a record: bb_beg > ns_end || ns_beg > bb_end
NoOverlapMutant(beg1, end1, beg2, end2) == beg1 > end2 /\ beg2 > end1
NoOverlap(beg1, end1, beg2, end2) == beg1 > end2 \/ beg2 > end1

\* the record formed from one raw region record that overlaps the namespace
RegionRecordMutant(rbeg, rend, ns_beg, ns_end) ==
    LET beg == IF rbeg > ns_beg THEN rbeg ELSE ns_beg
        end == IF rend < ns_end THEN rend ELSE ns_end
    IN  BadBlock(beg, ToUnsigned(end - beg + 1))
RegionRecord(rbeg, rend, ns_beg, ns_end) ==
    LET beg == IF rbeg > ns_beg THEN rbeg ELSE ns_beg
        end == IF rend < ns_end THEN rend ELSE ns_end
    IN  BadBlock(beg - ns_beg, ToUnsigned(end - beg + 1))

RECURSIVE RegionForeach(_, _, _, _, _, _)
\* ndctl_region_badblock_foreach of badblocks_get_badblocks_by_region, from
\* record i on; bud is the number of VEC_PUSH_BACK calls that still succeed
RegionForeach(raw, i, ns_beg, ns_end, vec, bud) ==
    IF i > Len(raw) THEN [rc |-> 0, vec |-> vec]
    ELSE LET rbeg == SEC2B(raw[i].offset)
             rend == rbeg + SEC2B(raw[i].len) - 1
         IN  IF NoOverlap(rbeg, rend, ns_beg, ns_end)
             THEN RegionForeach(raw, i + 1, ns_beg, ns_end, vec, bud)
             ELSE IF bud = 0 THEN [rc |-> -1, vec |-> <<>>]
             ELSE RegionForeach(raw, i + 1, ns_beg, ns_end,
                      Append(vec, RegionRecord(rbeg, rend, ns_beg, ns_end)),
                      bud - 1)

\* badblocks_get_badblocks_by_region: [rc, bbs, query]
badblocks_get_badblocks_by_regionMutant(ns, raw, bud) ==
    LET bounds == badblocks_get_namespace_bounds(ns)
        ns_beg == bounds.ns_offset
        ns_end == ns_beg + bounds.ns_size - 1
        loop   == RegionForeach(raw, 1, ns_beg, ns_end, <<>>, bud)
    IN  IF bounds.rc # 0 THEN [rc |-> -1, bbs |-> ZeroBbs, query |-> <<>>]
        ELSE IF loop.rc # 0
             THEN [rc |-> -1, bbs |-> ZeroBbs,
                   query |-> <<"ndctl_region_badblock_foreach">>]
        ELSE [rc |-> 0,
              bbs |-> [ns_resource |-> ns_beg,
                       bb_cnt |-> ToUnsigned(Len(loop.vec)),
                       bbv |-> loop.vec],
              query |-> <<"ndctl_region_badblock_foreach">>]
badblocks_get_badblocks_by_region(ns, raw, bud) ==
    LET bounds == badblocks_get_namespace_bounds(ns)
        ns_beg == bounds.ns_offset
        ns_end == ns_beg + bounds.ns_size - 1
        loop   == RegionForeach(raw, 1, ns_beg, ns_end, <<>>, bud)
    IN  IF bounds.rc # 0 THEN [rc |-> -1, bbs |-> ZeroBbs, query |-> <<>>]
        ELSE IF loop.rc # 0
             THEN [rc |-> -1, bbs |-> ZeroBbs,
                   query |-> <<"ndctl_region_badblock_foreach">>]
        ELSE [rc |-> 0,
              bbs |-> [ns_resource |-> ns_beg + ns.region_resource,
                       bb_cnt |-> ToUnsigned(Len(loop.vec)),
                       bbv |-> loop.vec],
              query |-> <<"ndctl_region_badblock_foreach">>]

RECURSIVE NamespaceForeach(_, _, _, _)
\* ndctl_namespace_badblock_foreach of badblocks_get_badblocks_by_namespace
NamespaceForeach(raw, i, vec, bud) ==
    IF i > Len(raw) THEN [rc |-> 0, vec |-> vec]
    ELSE IF bud = 0 THEN [rc |-> -1, vec |-> <<>>]
    ELSE NamespaceForeach(raw, i + 1,
             Append(vec, BadBlock(SEC2B(raw[i].offset),
                                  ToUnsigned(SEC2B(raw[i].len)))),
             bud - 1)

\* badblocks_get_badblocks_by_namespace: on failure *bbs is left as it was
badblocks_get_badblocks_by_namespace(raw, bbs0, bud) ==
    LET loop == NamespaceForeach(raw, 1, <<>>, bud)
    IN  IF loop.rc # 0
        THEN [rc |-> -1, bbs |-> bbs0,
              query |-> <<"ndctl_namespace_badblock_foreach">>]
        ELSE [rc |-> 0,
              bbs |-> [ns_resource |-> 0,
                       bb_cnt |-> ToUnsigned(Len(loop.vec)),
                       bbv |-> loop.vec],
              query |-> <<"ndctl_namespace_badblock_foreach">>]

\* badblocks_get_badblocks: the least privileged path
badblocks_get_badblocks(ns, raw, bbs0, bud) ==
    IF ns.mode = "fsdax"
    THEN badblocks_get_badblocks_by_namespace(raw, bbs0, bud)
    ELSE badblocks_get_badblocks_by_region(ns, raw, bud)

\* badblocks_files_namespace_badblocks_bus: [rc, bbs, calls]
badblocks_files_namespace_badblocks_busMutant(plat, bbs0, bud) ==
    IF plat.lookup = "stat_failed"
    THEN [rc |-> -1, bbs |-> bbs0, calls |-> <<"os_stat">>]
    ELSE IF plat.lookup = "lookup_failed"
    THEN [rc |-> -1, bbs |-> bbs0,
          calls |-> <<"os_stat", "ndctl_region_namespace">>]
    ELSE IF plat.lookup = "no_region"
    THEN [rc |-> 0, bbs |-> ZeroBbs,
          calls |-> <<"os_stat", "ndctl_region_namespace">>]
    ELSE IF plat.lookup = "no_namespace"
    THEN [rc |-> -1, bbs |-> ZeroBbs,
          calls |-> <<"os_stat", "ndctl_region_namespace">>]
    ELSE LET got == badblocks_get_badblocks(plat.ns, plat.raw, ZeroBbs, bud)
         IN  [rc |-> got.rc, bbs |-> got.bbs,
              calls |-> <<"os_stat", "ndctl_region_namespace">> \o got.query]
badblocks_files_namespace_badblocks_bus(plat, bbs0, bud) ==
    IF plat.lookup = "stat_failed"
    THEN [rc |-> -1, bbs |-> bbs0, calls |-> <<"os_stat">>]
    ELSE IF plat.lookup = "lookup_failed"
    THEN [rc |-> -1, bbs |-> bbs0,
          calls |-> <<"os_stat", "ndctl_region_namespace">>]
    ELSE IF plat.lookup \in {"no_region", "no_namespace"}
    THEN [rc |-> 0, bbs |-> ZeroBbs,
          calls |-> <<"os_stat", "ndctl_region_namespace">>]
    ELSE LET got == badblocks_get_badblocks(plat.ns, plat.raw, ZeroBbs, bud)
         IN  [rc |-> got.rc, bbs |-> got.bbs,
              calls |-> <<"os_stat", "ndctl_region_namespace">> \o got.query]

\* badblocks_files_namespace_badblocks: [rc, bbs, calls]
badblocks_files_namespace_badblocks(plat, bbs0, bud) ==
    IF plat.lookup = "new_failed"
    THEN [rc |-> -1, bbs |-> bbs0, calls |-> <<"ndctl_new">>]
    ELSE LET got == badblocks_files_namespace_badblocks_bus(plat, bbs0, bud)
         IN  [rc |-> got.rc, bbs |-> got.bbs,
              calls |-> <<"ndctl_new">> \o got.calls \o <<"ndctl_unref">>]

----------------------------------------------------------------------------
(* Values of the variables an operation does not use *)

NoExts == [allocated |-> FALSE, blksize |-> 0, extents_count |-> 0,
           extents |-> <<>>, filled |-> FALSE]

NoCmds == [ars_cap |-> "none", clear_error |-> "none"]

NoFile == [rc |-> 0, blksize |-> 0, extents |-> <<>>]

\* nothing allocated by the operation, the caller's set untouched, bbs unset
NoOwn == [new |-> "none", pbbs |-> "kept", bbs |-> "null"]

\* badblocks_delete(bbs) on the structure bbs points to
badblocks_delete(o) ==
    IF o.bbs = "new" THEN [o EXCEPT !.new = "freed"]
    ELSE IF o.bbs = "pbbs" THEN [o EXCEPT !.pbbs = "released"]
    ELSE o

\* no struct badblocks passed
NULL == [ns_resource |-> 0, bb_cnt |-> 0, bbv |-> <<>>, null |-> TRUE]

----------------------------------------------------------------------------
(* Region-scoped collection on its own *)

RegionPlatforms == {p \in Platforms : p.lookup = "found" /\ p.ns.mode # "fsdax"}

InitRegion ==
    /\ pc = "by_region"
    /\ platform \in RegionPlatforms
    /\ bbs = ZeroBbs
    /\ bbv = <<>> /\ exts = NoExts /\ extents = 0 /\ bb_found = -1
    /\ b = 0 /\ e = 0 /\ bb_beg = 0 /\ bb_end = 0
    /\ ret = 0 /\ calls = <<>> /\ cmds = NoCmds /\ stored = <<>>
    /\ file = NoFile /\ arg = NULL /\ own = NoOwn

\* one call of badblocks_get_badblocks_by_region(region, ndns, bbs)
ByRegion ==
    /\ pc = "by_region"
    /\ UNCHANGED <<arg, own>>
    /\ \E bud \in 0..MaxDefects :
         LET r == badblocks_get_badblocks_by_region(platform.ns, platform.raw, bud)
         IN  /\ bbs' = r.bbs
             /\ ret' = r.rc
             /\ calls' = r.query
    /\ pc' = "region_done"
    /\ UNCHANGED <<platform, bbv, exts, extents, bb_found, b, e, bb_beg, bb_end,
                   cmds, stored, file>>

NextRegion == ByRegion

SpecRegion == InitRegion /\ [][NextRegion]_vars

\* offset and length of each record of a vector, in order
RECURSIVE Ranges(_)
Ranges(vec) ==
    IF vec = <<>> THEN <<>>
    ELSE <<[offset |-> Head(vec).offset, length |-> Head(vec).length]>>
         \o Ranges(Tail(vec))

\* the namespace window [ns_beg, ns_end] of the platform's namespace, in bytes
\* relative to the region
WindowBeg == platform.ns.resource - platform.ns.region_resource
WindowEnd == WindowBeg + platform.ns.size - 1

\* what the claim says region-scoped collection yields for a raw list
RECURSIVE ClippedRanges(_, _, _)
ClippedRanges(raw, ns_beg, ns_end) ==
    IF raw = <<>> THEN <<>>
    ELSE LET first_beg == Head(raw).offset * 512
             first_end == first_beg + Head(raw).len * 512 - 1
             rest == ClippedRanges(Tail(raw), ns_beg, ns_end)
         IN  IF first_beg <= ns_end /\ ns_beg <= first_end
             THEN <<[offset |-> Max(first_beg, ns_beg) - ns_beg,
                     length |-> Min(first_end, ns_end) - Max(first_beg, ns_beg) + 1]>>
                  \o rest
             ELSE rest

\* C2: region-scoped collection yields, in the platform's enumeration order,
\* one record for exactly the raw records with bb_beg <= ns_end and
\* ns_beg <= bb_end, with offset max(bb_beg, ns_beg) - ns_beg and length
\* min(bb_end, ns_end) - max(bb_beg, ns_beg) + 1.
C2_RegionClipping ==
    (pc = "region_done" /\ ret = 0) =>
        /\ Ranges(bbs.bbv) = ClippedRanges(platform.raw, WindowBeg, WindowEnd)
        /\ bbs.bb_cnt = Len(bbs.bbv)

\* C2 witness: a window [1280, 2303] starting inside a sector; the raw record
\* of sector 0 lies before the window and is dropped, the record of sectors 3..4
\* (bytes 1536..2559) is clipped at the window's end and re-expressed from 1280
C2_Witness ==
    /\ pc = "region_done" /\ ret = 0
    /\ WindowBeg = 1280 /\ WindowEnd = 2303
    /\ platform.raw = <<[offset |-> 0, len |-> 1], [offset |-> 3, len |-> 2]>>
    /\ Ranges(bbs.bbv) = <<[offset |-> 256, length |-> 768]>>

----------------------------------------------------------------------------
(* The extent query interface: what the file system answers for a file *)

\* struct extent
Extents == [offset_physical : {0, 1024, 1536},
            offset_logical : {0, 4096},
            length : {512, 1024}]

\* two extents of one file share neither physical nor logical bytes
Disjoint(x, y) ==
    /\ \/ x.offset_physical + x.length <= y.offset_physical
       \/ y.offset_physical + y.length <= x.offset_physical
    /\ \/ x.offset_logical + x.length <= y.offset_logical
       \/ y.offset_logical + y.length <= x.offset_logical

ExtentLists ==
    {l \in UNION {[1..n -> Extents] : n \in 0..MaxExtents} :
        \A i, j \in DOMAIN l : i < j => Disjoint(l[i], l[j])}

\* block sizes (powers of two)
BlockSizes == {512, 1024}

\* answers of os_extents_count: an error, or the block size and the extent map
\* that os_extents_get then fills in
\* a file of 4096-byte blocks with one extent of 10,000,000 bytes
ScenarioFile ==
    [rc |-> 0, blksize |-> 4096,
     extents |-> <<[offset_physical |-> 500000000,
                    offset_logical |-> 100000000,
                    length |-> 10000000]>>]

Files == {[rc |-> -1, blksize |-> 0, extents |-> <<>>]}
         \cup [rc : {0}, blksize : BlockSizes, extents : ExtentLists]
         \cup {ScenarioFile}

----------------------------------------------------------------------------
(* Extent-Mapping Translator: badblocks_get *)

\* bb_beg = (bb_beg > ext_beg) ? bb_beg : ext_beg
ClipBeg(beg, ext_beg) == IF beg > ext_beg THEN beg ELSE ext_beg

\* bb_end = (bb_end < ext_end) ? bb_end : ext_end
ClipEnd(end, ext_end) == IF end < ext_end THEN end ELSE ext_end

\* bb_off = bb_beg + offset_logical - offset_physical
LogicalOffset(beg, ext) == beg + ext.offset_logical - ext.offset_physical

\* the record stored for an overlap of bb_len bytes at logical offset bb_off:
\* offset aligned down and length aligned up to the block size
AlignedRecordMutant(bb_off, bb_len, blksize) ==
    LET not_block_aligned == BitAnd(bb_off, blksize - 1)
        off == IF not_block_aligned # 0 THEN bb_off - not_block_aligned ELSE bb_off
    IN  BadBlock(off, ToUnsigned(ALIGN_UP(bb_len, blksize)))
AlignedRecord(bb_off, bb_len, blksize) ==
    LET not_block_aligned == BitAnd(bb_off, blksize - 1)
        off == IF not_block_aligned # 0 THEN bb_off - not_block_aligned ELSE bb_off
        len == IF not_block_aligned # 0 THEN bb_len + not_block_aligned ELSE bb_len
    IN  BadBlock(off, ToUnsigned(ALIGN_UP(len, blksize)))

\* a caller's struct badblocks before the call: zeroed, or left from earlier use
StaleBbs == [ns_resource |-> 4096, bb_cnt |-> 1, bbv |-> <<BadBlock(0, 512)>>]

InitGet ==
    /\ pc = "get_start"
    /\ platform = NoPlatform
    /\ bbs \in {ZeroBbs, StaleBbs}
    /\ bbv = <<>> /\ exts = NoExts /\ extents = 0 /\ bb_found = -1
    /\ b = 0 /\ e = 0 /\ bb_beg = 0 /\ bb_end = 0
    /\ ret = 0 /\ calls = <<>> /\ cmds = NoCmds /\ stored = <<>>
    /\ file = NoFile /\ arg = NULL /\ own = NoOwn

\* lines 521-529: where badblocks_get goes after the collection returned rc
\* with bb_cnt records
AfterCollectMutant(rc, bb_cnt) ==
    IF rc # 0 THEN "error_free_all" ELSE "extents_count"
AfterCollect(rc, bb_cnt) ==
    IF rc # 0 THEN "error_free_all"
    ELSE IF bb_cnt = 0 THEN "exit_free_all"
    ELSE "extents_count"

\* lines 538-554: where badblocks_get goes after os_extents_count returned n
AfterCountMutant(n) ==
    IF n < 0 THEN "error_free_all"
    ELSE IF n = 0 THEN "error_free_all"
    ELSE "extents_get"
AfterCount(n) ==
    IF n < 0 THEN "error_free_all"
    ELSE IF n = 0 THEN "exit_free_all"
    ELSE "extents_get"

\* lines 519-529: memset, badblocks_files_namespace_badblocks, bb_cnt == 0
GetCollect ==
    /\ pc = "get_start"
    /\ UNCHANGED <<arg, own>>
    /\ \E plat \in Platforms, bud \in 0..MaxDefects :
         LET r == badblocks_files_namespace_badblocks(plat, ZeroBbs, bud)
         IN  /\ platform' = plat
             /\ bbs' = r.bbs
             /\ calls' = calls \o r.calls
             /\ pc' = AfterCollect(r.rc, r.bbs.bb_cnt)
             /\ bb_found' = IF pc' = "exit_free_all" THEN 0 ELSE bb_found
    /\ UNCHANGED <<bbv, exts, extents, b, e, bb_beg, bb_end, ret, cmds, stored,
                   file>>

\* lines 531-554: Zalloc of exts, os_extents_count, the extent-less file
GetExtentsCount ==
    /\ pc = "extents_count"
    /\ UNCHANGED <<arg, own>>
    /\ \/ \* Zalloc fails
          /\ pc' = "error_free_all"
          /\ UNCHANGED <<exts, extents, calls, file, bb_found>>
       \/ \E f \in Files :
            /\ file' = f
            /\ calls' = Append(calls, "os_extents_count")
            /\ exts' = [allocated |-> TRUE, blksize |-> f.blksize,
                        extents_count |-> Len(f.extents), extents |-> <<>>,
                        filled |-> FALSE]
            /\ extents' = IF f.rc < 0 THEN -1 ELSE Len(f.extents)
            /\ pc' = AfterCount(extents')
            /\ bb_found' = IF extents' = 0 THEN bbs.bb_cnt ELSE bb_found
    /\ UNCHANGED <<platform, bbs, bbv, b, e, bb_beg, bb_end, ret, cmds, stored>>

\* lines 556-567: Zalloc of exts->extents, os_extents_get
GetExtentsGet ==
    /\ pc = "extents_get"
    /\ UNCHANGED <<arg, own>>
    /\ \/ \* Zalloc fails
          /\ pc' = "error_free_all"
          /\ UNCHANGED <<exts, calls, bb_found, b>>
       \/ \* os_extents_get fails
          /\ calls' = Append(calls, "os_extents_get")
          /\ exts' = [exts EXCEPT !.filled = TRUE]
          /\ pc' = "error_free_all"
          /\ UNCHANGED <<bb_found, b>>
       \/ /\ calls' = Append(calls, "os_extents_get")
          /\ exts' = [exts EXCEPT !.filled = TRUE, !.extents = file.extents]
          /\ bb_found' = 0
          /\ b' = 0
          /\ pc' = "for_b"
    /\ UNCHANGED <<platform, bbs, bbv, extents, e, bb_beg, bb_end, ret, cmds,
                   stored, file>>

\* lines 569-574: the head of the loop over bad blocks
GetForBadBlock ==
    /\ pc = "for_b"
    /\ UNCHANGED <<arg, own>>
    /\ IF b < bbs.bb_cnt
       THEN /\ bb_beg' = bbs.bbv[b + 1].offset
            /\ bb_end' = bbs.bbv[b + 1].offset + bbs.bbv[b + 1].length - 1
            /\ e' = 0
            /\ pc' = "for_e"
       ELSE /\ pc' = "error_free_all"
            /\ UNCHANGED <<bb_beg, bb_end, e>>
    /\ UNCHANGED <<platform, bbs, bbv, exts, extents, bb_found, b, ret, calls,
                   cmds, stored, file>>

\* lines 574-626: one pass of the loop over extents
GetForExtent ==
    /\ pc = "for_e"
    /\ UNCHANGED <<arg, own>>
    /\ IF e < exts.extents_count
       THEN LET ext == exts.extents[e + 1]
                ext_beg == ext.offset_physical
                ext_end == ext_beg + ext.length - 1
                beg == ClipBeg(bb_beg, ext_beg)
                end == ClipEnd(bb_end, ext_end)
                bb_len == end - beg + 1
                bb_off == LogicalOffset(beg, ext)
            IN  IF NoOverlap(bb_beg, bb_end, ext_beg, ext_end)
                THEN /\ e' = e + 1
                     /\ UNCHANGED <<pc, bb_found, bb_beg, bb_end, bbv, stored, b>>
                ELSE /\ bb_beg' = beg
                     /\ bb_end' = end
                     /\ \/ \* VEC_PUSH_BACK succeeds
                           /\ bb_found' = bb_found + 1
                           /\ bbv' = Append(bbv,
                                       AlignedRecord(bb_off, bb_len, exts.blksize))
                           /\ stored' = Append(stored,
                                       [b |-> b + 1, e |-> e + 1,
                                        beg |-> beg, end |-> end])
                           /\ e' = e + 1
                           /\ UNCHANGED <<pc, b>>
                        \/ \* VEC_PUSH_BACK fails: VEC_DELETE, bb_found = -1
                           /\ bbv' = <<>>
                           /\ bb_found' = -1
                           /\ pc' = "error_free_all"
                           /\ UNCHANGED <<stored, e, b>>
       ELSE /\ b' = b + 1
            /\ pc' = "for_b"
            /\ UNCHANGED <<bb_found, bb_beg, bb_end, bbv, stored, e>>
    /\ UNCHANGED <<platform, bbs, exts, extents, ret, calls, cmds, file>>

\* lines 629-632: Free(bbs->bbv); bbs->bbv = NULL; bbs->bb_cnt = 0
GetErrorFreeAllMutant ==
    /\ pc = "error_free_all"
    /\ UNCHANGED <<arg, own>>
    /\ pc' = "exit_free_all"
    /\ UNCHANGED <<platform, bbs, bbv, exts, extents, bb_found, b, e, bb_beg,
                   bb_end, ret, calls, cmds, stored, file>>
GetErrorFreeAll ==
    /\ pc = "error_free_all"
    /\ UNCHANGED <<arg, own>>
    /\ bbs' = [bbs EXCEPT !.bbv = <<>>, !.bb_cnt = 0]
    /\ pc' = "exit_free_all"
    /\ UNCHANGED <<platform, bbv, exts, extents, bb_found, b, e, bb_beg, bb_end,
                   ret, calls, cmds, stored, file>>

\* lines 634-650: free the extents, hand over the vector, return
GetExitFreeAll ==
    /\ pc = "exit_free_all"
    /\ UNCHANGED <<arg, own>>
    /\ exts' = NoExts
    /\ IF extents > 0 /\ bb_found > 0
       THEN bbs' = [bbs EXCEPT !.bbv = bbv, !.bb_cnt = ToUnsigned(Len(bbv))]
       ELSE UNCHANGED bbs
    /\ ret' = IF bb_found >= 0 THEN 0 ELSE -1
    /\ pc' = "get_done"
    /\ UNCHANGED <<platform, bbv, extents, bb_found, b, e, bb_beg, bb_end,
                   calls, cmds, stored, file>>

NextGet ==
    \/ GetCollect
    \/ GetExtentsCount
    \/ GetExtentsGet
    \/ GetForBadBlock
    \/ GetForExtent
    \/ GetErrorFreeAll
    \/ GetExitFreeAll

SpecGet == InitGet /\ [][NextGet]_vars

----------------------------------------------------------------------------
(* Remediator: sets a caller passes to a clear operation *)

\* records of a caller's set
CallerRecords == {BadBlock(0, 512), BadBlock(1536, 1024), BadBlock(4096, 512)}

\* a caller's struct badblocks: bb_cnt records, namespace-relative
CallerSets ==
    [ns_resource : {4096},
     bb_cnt : {0},
     bbv : {<<>>},
     null : {FALSE}]
    \cup UNION {[ns_resource : {4096}, bb_cnt : {n},
                 bbv : [1..n -> CallerRecords], null : {FALSE}] : n \in 1..MaxDefects}

\* the struct badblocks the clear operation works on, from what the collection
\* filled in
AsSet(x) == [ns_resource |-> x.ns_resource, bb_cnt |-> x.bb_cnt, bbv |-> x.bbv]

----------------------------------------------------------------------------
(* Remediator: device-mapped clearing *)

\* badblocks_files_namespace_bus: 0 with the region's bus, or -1
badblocks_files_namespace_bus(plat) ==
    IF plat.lookup \in {"stat_failed", "lookup_failed", "no_region"} THEN -1 ELSE 0

\* answers of ndctl_cmd_submit: negative is failure
SubmitResults == {-1, 0, 1}

\* line 399: ret = cleared == length ? 0 : -1
ClearedResultMutant(cleared, length) == IF cleared <= length THEN 0 ELSE -1
ClearedResult(cleared, length) == IF cleared = length THEN 0 ELSE -1

\* a call of the bus command interface for range r (1-based)
BusCall(op, r, address, length) ==
    [op |-> op, range |-> r, address |-> address, length |-> length]

\* address and length passed to badblocks_devdax_clear_one_badblock for range b
Address == bbs.bbv[b + 1].offset + bbs.ns_resource
Length == bbs.bbv[b + 1].length

\* what happened to the command objects of the range being cleared
StartCmds == [ars_cap |-> "none", clear_error |-> "none", length |-> 0,
              cap_rc |-> 0, range_ok |-> FALSE, range_length |-> 0,
              clear_rc |-> 0, cleared |-> -1, returned |-> FALSE]

\* what os_stat and ndctl_region_namespace can answer once ndctl_new succeeded
PathPlatforms == {p \in Platforms : p.lookup # "new_failed"}

InitDevdax ==
    /\ pc = "dd_start"
    /\ platform = NoPlatform
    /\ arg \in {NULL} \cup CallerSets
    /\ own = NoOwn
    /\ bbs = ZeroBbs
    /\ bbv = <<>> /\ exts = NoExts /\ extents = 0 /\ bb_found = -1
    /\ b = 0 /\ e = 0 /\ bb_beg = 0 /\ bb_end = 0
    /\ ret = -1 /\ calls = <<>> /\ cmds = StartCmds /\ stored = <<>>
    /\ file = NoFile

\* lines 420-429: ndctl_new, badblocks_new
DevdaxNew ==
    /\ pc = "dd_start"
    /\ \/ \* ndctl_new fails: return -1
          /\ ret' = -1 /\ pc' = "dd_done" /\ UNCHANGED own
       \/ \* badblocks_new fails
          /\ pc' = "dd_exit" /\ UNCHANGED <<ret, own>>
       \/ /\ own' = [own EXCEPT !.new = "live", !.bbs = "new"]
          /\ pc' = "dd_lookup" /\ UNCHANGED ret
    /\ UNCHANGED <<platform, bbs, bbv, exts, extents, bb_found, b, e, bb_beg,
                   bb_end, calls, cmds, stored, file, arg>>

\* lines 431-452: the bus, the set to clear, and the test for an empty set
DevdaxLookup ==
    /\ pc = "dd_lookup"
    /\ \E plat \in PathPlatforms, bud \in 0..MaxDefects :
         /\ IF ~arg.null
            THEN /\ platform' = [NoPlatform EXCEPT !.lookup = plat.lookup]
                 /\ ret' = badblocks_files_namespace_bus(plat)
                 /\ IF ret' # 0
                    THEN UNCHANGED <<bbs, own>>
                    ELSE /\ bbs' = AsSet(arg)
                         /\ own' = [badblocks_delete(own) EXCEPT !.bbs = "pbbs"]
            ELSE LET r == badblocks_files_namespace_badblocks_bus(plat, ZeroBbs, bud)
                 IN  /\ platform' = plat
                     /\ ret' = r.rc
                     /\ bbs' = r.bbs
                     /\ UNCHANGED own
    /\ pc' = IF ret' # 0 THEN "dd_exit"
             ELSE IF bbs'.bb_cnt = 0 \/ bbs'.bbv = <<>> THEN "dd_exit"
             ELSE "dd_for"
    /\ b' = 0
    /\ UNCHANGED <<bbv, exts, extents, bb_found, e, bb_beg, bb_end, calls, cmds,
                   stored, file, arg>>

\* lines 455-462: the head of the loop over the ranges
DevdaxFor ==
    /\ pc = "dd_for"
    /\ IF b < bbs.bb_cnt
       THEN pc' = "one_new_ars_cap" /\ cmds' = [StartCmds EXCEPT !.length = Length]
       ELSE pc' = "dd_exit" /\ UNCHANGED cmds
    /\ UNCHANGED <<platform, bbs, bbv, exts, extents, bb_found, b, e, bb_beg,
                   bb_end, ret, calls, stored, file, arg, own>>

\* lines 364-372: ndctl_bus_cmd_new_ars_cap
OneNewArsCap ==
    /\ pc = "one_new_ars_cap"
    /\ calls' = Append(calls, BusCall("new_ars_cap", b + 1, Address, Length))
    /\ \/ \* NULL: return -1
          /\ ret' = -1
          /\ cmds' = [cmds EXCEPT !.returned = TRUE]
          /\ pc' = "dd_returned"
       \/ /\ ret' = 0
          /\ cmds' = [cmds EXCEPT !.ars_cap = "created"]
          /\ pc' = "one_submit_ars_cap"
    /\ UNCHANGED <<platform, bbs, bbv, exts, extents, bb_found, b, e, bb_beg,
                   bb_end, stored, file, arg, own>>

\* lines 374-378: ndctl_cmd_submit(cmd_ars_cap)
OneSubmitArsCap ==
    /\ pc = "one_submit_ars_cap"
    /\ calls' = Append(calls, BusCall("submit_ars_cap", b + 1, Address, Length))
    /\ \E rc \in SubmitResults :
         /\ ret' = rc
         /\ cmds' = [cmds EXCEPT !.cap_rc = rc]
         /\ pc' = IF rc < 0 THEN "out_ars_cap" ELSE "one_get_range"
    /\ UNCHANGED <<platform, bbs, bbv, exts, extents, bb_found, b, e, bb_beg,
                   bb_end, stored, file, arg, own>>

\* lines 380-384: ndctl_cmd_ars_cap_get_range
OneGetRange ==
    /\ pc = "one_get_range"
    /\ \/ \* the read-back fails: goto out_ars_cap, ret as it is
          /\ cmds' = [cmds EXCEPT !.range_ok = FALSE]
          /\ pc' = "out_ars_cap"
       \/ \E len \in {Length, SectorSize} :
            /\ cmds' = [cmds EXCEPT !.range_ok = TRUE, !.range_length = len]
            /\ pc' = "one_new_clear_error"
    /\ UNCHANGED <<platform, bbs, bbv, exts, extents, bb_found, b, e, bb_beg,
                   bb_end, ret, calls, stored, file, arg, own>>

\* lines 386-387: ndctl_bus_cmd_new_clear_error, its result not tested
OneNewClearError ==
    /\ pc = "one_new_clear_error"
    /\ calls' = Append(calls,
                   BusCall("new_clear_error", b + 1, Address, cmds.range_length))
    /\ \E made \in {"created", "null"} :
         cmds' = [cmds EXCEPT !.clear_error = made]
    /\ pc' = "one_submit_clear_error"
    /\ UNCHANGED <<platform, bbs, bbv, exts, extents, bb_found, b, e, bb_beg,
                   bb_end, ret, stored, file, arg, own>>

\* lines 389-393: ndctl_cmd_submit(cmd_clear_error); with a NULL command the
\* library is handed a null pointer: the process dies there, or the call fails
OneSubmitClearError ==
    /\ pc = "one_submit_clear_error"
    /\ calls' = Append(calls,
                   BusCall("submit_clear_error", b + 1, Address, cmds.range_length))
    /\ IF cmds.clear_error = "null"
       THEN \/ pc' = "crashed" /\ UNCHANGED <<ret, cmds>>
            \/ /\ ret' = -1
               /\ cmds' = [cmds EXCEPT !.clear_rc = -1]
               /\ pc' = "out_clear_error"
       ELSE \E rc \in SubmitResults :
              /\ ret' = rc
              /\ cmds' = [cmds EXCEPT !.clear_rc = rc]
              /\ pc' = IF rc < 0 THEN "out_clear_error" ELSE "one_get_cleared"
    /\ UNCHANGED <<platform, bbs, bbv, exts, extents, bb_found, b, e, bb_beg,
                   bb_end, stored, file, arg, own>>

\* lines 395-399: ndctl_cmd_clear_error_get_cleared against the requested length
OneGetCleared ==
    /\ pc = "one_get_cleared"
    /\ \E cleared \in {0, cmds.range_length} :
         /\ calls' = Append(calls, BusCall("get_cleared", b + 1, Address, cleared))
         /\ cmds' = [cmds EXCEPT !.cleared = cleared]
         /\ ret' = ClearedResult(cleared, Length)
    /\ pc' = "out_clear_error"
    /\ UNCHANGED <<platform, bbs, bbv, exts, extents, bb_found, b, e, bb_beg,
                   bb_end, stored, file, arg, own>>

\* lines 401-402: ndctl_cmd_unref(cmd_clear_error)
OneOutClearError ==
    /\ pc = "out_clear_error"
    /\ calls' = Append(calls, BusCall("unref_clear_error", b + 1, Address, 0))
    /\ cmds' = [cmds EXCEPT !.clear_error =
                    IF cmds.clear_error = "created" THEN "released"
                    ELSE cmds.clear_error]
    /\ pc' = "out_ars_cap"
    /\ UNCHANGED <<platform, bbs, bbv, exts, extents, bb_found, b, e, bb_beg,
                   bb_end, ret, stored, file, arg, own>>

\* lines 403-406: ndctl_cmd_unref(cmd_ars_cap); return ret
OneOutArsCap ==
    /\ pc = "out_ars_cap"
    /\ calls' = Append(calls, BusCall("unref_ars_cap", b + 1, Address, 0))
    /\ cmds' = [cmds EXCEPT !.ars_cap = "released", !.returned = TRUE]
    /\ pc' = "dd_returned"
    /\ UNCHANGED <<platform, bbs, bbv, exts, extents, bb_found, b, e, bb_beg,
                   bb_end, ret, stored, file, arg, own>>

\* lines 460-470: the loop after badblocks_devdax_clear_one_badblock returned
DevdaxReturned ==
    /\ pc = "dd_returned"
    /\ IF ret # 0
       THEN pc' = "dd_exit" /\ UNCHANGED b
       ELSE pc' = "dd_for" /\ b' = b + 1
    /\ UNCHANGED <<platform, bbs, bbv, exts, extents, bb_found, e, bb_beg,
                   bb_end, ret, calls, cmds, stored, file, arg, own>>

\* lines 472-478: exit_free_all
DevdaxExit ==
    /\ pc = "dd_exit"
    /\ own' = IF arg.null THEN badblocks_delete(own) ELSE own
    /\ pc' = "dd_done"
    /\ UNCHANGED <<platform, bbs, bbv, exts, extents, bb_found, b, e, bb_beg,
                   bb_end, ret, calls, cmds, stored, file, arg>>

NextDevdax ==
    \/ DevdaxNew
    \/ DevdaxLookup
    \/ DevdaxFor
    \/ OneNewArsCap
    \/ OneSubmitArsCap
    \/ OneGetRange
    \/ OneNewClearError
    \/ OneSubmitClearError
    \/ OneGetCleared
    \/ OneOutClearError
    \/ OneOutArsCap
    \/ DevdaxReturned
    \/ DevdaxExit

SpecDevdax == InitDevdax /\ [][NextDevdax]_vars

----------------------------------------------------------------------------
(* Remediator: filesystem-backed clearing *)

\* width of off_t in the model (64 in the build)
OffTBits == 24

\* the cast (off_t)(x)
ToOffT(x) ==
    LET m == x % (2 ^ OffTBits)
    IN  IF m < 2 ^ (OffTBits - 1) THEN m ELSE m - 2 ^ OffTBits

\* a call on the file: os_open, fallocate (punch or allocate), os_close
FileCall(op, r, offset, length, ok) ==
    [op |-> op, range |-> r, offset |-> offset, length |-> length, ok |-> ok]

\* lines 703-708: after the deallocating fallocate
AfterPunchMutant(ok) == "cf_allocate"
AfterPunch(ok) == IF ok THEN "cf_allocate" ELSE "cf_close"

InitClearFile ==
    /\ pc = "cf_open"
    /\ platform = NoPlatform
    /\ arg \in CallerSets
    /\ own = NoOwn
    /\ bbs = AsSet(arg)
    /\ bbv = <<>> /\ exts = NoExts /\ extents = 0 /\ bb_found = -1
    /\ b = 0 /\ e = 0 /\ bb_beg = 0 /\ bb_end = 0
    /\ ret = 0 /\ calls = <<>> /\ cmds = NoCmds /\ stored = <<>>
    /\ file = NoFile

\* lines 686-692: os_open(file, O_RDWR)
ClearFileOpen ==
    /\ pc = "cf_open"
    /\ \E ok \in BOOLEAN :
         /\ calls' = Append(calls, FileCall("os_open", 0, 0, 0, ok))
         /\ IF ok THEN pc' = "cf_for" /\ ret' = 0
                  ELSE pc' = "cf_done" /\ ret' = -1
    /\ b' = 0
    /\ UNCHANGED <<platform, bbs, bbv, exts, extents, bb_found, e, bb_beg,
                   bb_end, cmds, stored, file, arg, own>>

\* lines 694-708: the head of the loop and the deallocating fallocate
ClearFilePunch ==
    /\ pc = "cf_for"
    /\ IF b < bbs.bb_cnt
       THEN \E ok \in BOOLEAN :
              /\ calls' = Append(calls,
                             FileCall("punch_hole", b + 1,
                                      ToOffT(bbs.bbv[b + 1].offset),
                                      ToOffT(bbs.bbv[b + 1].length), ok))
              /\ ret' = IF ok THEN ret ELSE -1
              /\ pc' = AfterPunch(ok)
       ELSE pc' = "cf_close" /\ UNCHANGED <<calls, ret>>
    /\ UNCHANGED <<platform, bbs, bbv, exts, extents, bb_found, b, e, bb_beg,
                   bb_end, cmds, stored, file, arg, own>>

\* lines 710-716: the allocating fallocate and the step of the loop
ClearFileAllocate ==
    /\ pc = "cf_allocate"
    /\ \E ok \in BOOLEAN :
         /\ calls' = Append(calls,
                        FileCall("allocate", b + 1,
                                 ToOffT(bbs.bbv[b + 1].offset),
                                 ToOffT(bbs.bbv[b + 1].length), ok))
         /\ IF ok THEN pc' = "cf_for" /\ b' = b + 1 /\ UNCHANGED ret
                  ELSE pc' = "cf_close" /\ ret' = -1 /\ UNCHANGED b
    /\ UNCHANGED <<platform, bbs, bbv, exts, extents, bb_found, e, bb_beg,
                   bb_end, cmds, stored, file, arg, own>>

\* lines 718-720: os_close(fd); return ret
ClearFileClose ==
    /\ pc = "cf_close"
    /\ calls' = Append(calls, FileCall("os_close", 0, 0, 0, TRUE))
    /\ pc' = "cf_done"
    /\ UNCHANGED <<platform, bbs, bbv, exts, extents, bb_found, b, e, bb_beg,
                   bb_end, ret, cmds, stored, file, arg, own>>

NextClearFile ==
    \/ ClearFileOpen
    \/ ClearFilePunch
    \/ ClearFileAllocate
    \/ ClearFileClose

SpecClearFile == InitClearFile /\ [][NextClearFile]_vars

----------------------------------------------------------------------------
(* Properties of badblocks_get *)

\* the namespace-relative defect list the collection hands to badblocks_get
Defects == badblocks_files_namespace_badblocks(platform, ZeroBbs, MaxDefects).bbs.bbv

\* the calls of the defect query interface and of the extent interface
DefectQueries == {"ndctl_region_badblock_foreach", "ndctl_namespace_badblock_foreach"}
ExtentCalls == {"os_extents_count", "os_extents_get"}

Issued(names) == \E i \in DOMAIN calls : calls[i] \in names

\* badblocks_get went through the translation of defects by extents and succeeded
Translated == pc = "get_done" /\ ret = 0 /\ extents > 0

\* first and last physical byte of defect d and of extent x
DefectBeg(d) == d.offset
DefectEnd(d) == d.offset + d.length - 1
ExtentBeg(x) == x.offset_physical
ExtentEnd(x) == x.offset_physical + x.length - 1

Intersect(d, x) == DefectBeg(d) <= ExtentEnd(x) /\ ExtentBeg(x) <= DefectEnd(d)

\* the (defect, extent) pairs whose physical byte intervals intersect
IntersectingPairs ==
    {p \in (DOMAIN Defects) \X (DOMAIN file.extents) :
        Intersect(Defects[p[1]], file.extents[p[2]])}

\* record i of the output was derived from the intersection of defect p[1]'s own
\* interval with extent p[2]
DerivedFrom(i, p) ==
    /\ stored[i].b = p[1] /\ stored[i].e = p[2]
    /\ stored[i].beg = Max(DefectBeg(Defects[p[1]]), ExtentBeg(file.extents[p[2]]))
    /\ stored[i].end = Min(DefectEnd(Defects[p[1]]), ExtentEnd(file.extents[p[2]]))

\* C1: on a file with extents, the output of badblocks_get holds exactly one
\* record for every (defect, extent) pair whose physical intervals intersect,
\* derived from the intersection of the defect's own interval with the extent,
\* and none for any other pair: the record count is the number of intersecting
\* pairs, also when one defect intersects several extents.
C1_OneRecordPerPair ==
    Translated =>
        /\ bbs.bb_cnt = Cardinality(IntersectingPairs)
        /\ Len(bbs.bbv) = Cardinality(IntersectingPairs)
        /\ \A p \in IntersectingPairs :
              \E i \in DOMAIN bbs.bbv : DerivedFrom(i, p)

\* C3: every record badblocks_get stores for an overlap starts and ends on a
\* block boundary and covers every byte of the overlap of the defect with the
\* extent, translated into the file's frame.
C3_AlignedSuperset ==
    Translated =>
        \A i \in DOMAIN bbs.bbv :
            LET d == Defects[stored[i].b]
                x == file.extents[stored[i].e]
                beg == Max(DefectBeg(d), ExtentBeg(x))
                end == Min(DefectEnd(d), ExtentEnd(x))
                off == beg + x.offset_logical - x.offset_physical
                rec == bbs.bbv[i]
            IN  /\ rec.offset % file.blksize = 0
                /\ rec.length % file.blksize = 0
                /\ rec.offset <= off
                /\ off + (end - beg + 1) <= rec.offset + rec.length

\* C3 witness: blocks of 1024 bytes, the defect of sector 3 (bytes 1536..2047)
\* inside an extent at physical 1024 mapped to logical 4096: the overlap is at
\* logical 4608, inside a block, and the record is widened to the block
C3_Witness ==
    /\ Translated
    /\ file.blksize = 1024
    /\ \E i \in DOMAIN bbs.bbv :
          /\ file.extents[stored[i].e] =
                [offset_physical |-> 1024, offset_logical |-> 4096, length |-> 1024]
          /\ stored[i].beg = 1536 /\ stored[i].end = 2047
          /\ bbs.bbv[i].offset = 4096 /\ bbs.bbv[i].length = 1024

\* C7: an error of badblocks_get hands back an empty set
C7_ErrorEmptySet ==
    (pc = "get_done" /\ ret # 0) => (bbs.bb_cnt = 0 /\ bbs.bbv = <<>>)

\* C7 witness: the collection found two defects, one record was translated, and
\* the append of the next one failed
C7_Witness ==
    /\ pc = "get_done" /\ ret = -1
    /\ Len(Defects) = 2 /\ Len(stored) = 1
    /\ Issued({"os_extents_get"})
    /\ bbs.bb_cnt = 0

\* the namespace of the file was asked for its defects and reported none
ZeroRawDefects == Issued(DefectQueries) /\ platform.raw = <<>>

\* C8: when the namespace reports zero raw defects, no call of the extent
\* interface is ever issued, and badblocks_get returns success with an empty set
C8_NoDefectsNoExtentQuery ==
    ZeroRawDefects =>
        /\ ~Issued(ExtentCalls)
        /\ pc = "get_done" => (ret = 0 /\ bbs.bb_cnt = 0 /\ bbs.bbv = <<>>)

\* C8 witness: badblocks_get returned for a namespace that reported no defect
C8_Witness ==
    /\ pc = "get_done" /\ ZeroRawDefects /\ ret = 0
    /\ calls[Len(calls)] = "ndctl_unref"

\* os_extents_count was called and reported a file without extents
NoExtents == Issued({"os_extents_count"}) /\ file.rc = 0 /\ file.extents = <<>>

\* C9: with an extent count of 0 and at least one defect, badblocks_get returns
\* success and the set is the namespace-relative defect list, unchanged
C9_ExtentlessVerbatim ==
    (pc = "get_done" /\ NoExtents) =>
        /\ ret = 0
        /\ bbs.bbv = Defects
        /\ bbs.bb_cnt = Len(Defects)
        /\ Len(Defects) >= 1

\* C9 witness: two defects of a device-dax namespace, the second clipped by
\* the namespace's window, handed back as collected
C9_Witness ==
    /\ pc = "get_done" /\ NoExtents
    /\ platform.ns.mode = "devdax"
    /\ Ranges(bbs.bbv) = <<[offset |-> 0, length |-> 512],
                           [offset |-> 1536, length |-> 512]>>

\* the lookup succeeded and found no region, or no namespace, for the path
NoNamespaceForPath == platform.lookup \in {"no_region", "no_namespace"}

\* C10: when the lookup succeeds and yields no region or no namespace, the
\* collection for the path and badblocks_get return success with an empty set
\* and issue no defect query; short of a namespace, an error comes only from
\* stat or from the topology lookup (the library context and the lookup call)
C10_NoNamespaceEmptySuccess ==
    /\ NoNamespaceForPath =>
          /\ badblocks_files_namespace_badblocks(platform, StaleBbs, 0).rc = 0
          /\ badblocks_files_namespace_badblocks(platform, StaleBbs, 0).bbs = ZeroBbs
          /\ ~Issued(DefectQueries)
          /\ pc = "get_done" => (ret = 0 /\ bbs.bb_cnt = 0 /\ bbs.bbv = <<>>)
    /\ (pc = "get_done" /\ ret # 0 /\ platform.lookup # "found") =>
          platform.lookup \in {"stat_failed", "new_failed", "lookup_failed"}

\* C10 witness: badblocks_get returned for a path with a region and no namespace
C10_Witness ==
    /\ pc = "get_done" /\ platform.lookup = "no_namespace" /\ ret = 0
    /\ calls = <<"ndctl_new", "os_stat", "ndctl_region_namespace", "ndctl_unref">>


----------------------------------------------------------------------------
(* Properties of device-mapped clearing *)

\* every step of badblocks_devdax_clear_one_badblock succeeded for the range
\* whose commands cmds describes
AllStepsSucceeded ==
    /\ cmds.ars_cap \in {"created", "released"}
    /\ cmds.cap_rc >= 0
    /\ cmds.range_ok
    /\ cmds.clear_error \in {"created", "released"}
    /\ cmds.clear_rc >= 0
    /\ cmds.cleared = cmds.length

\* C4: clearing one range reports success only if the scrub-capability command
\* was created and submitted, its clearable sub-range was read back, the
\* clear-error command was submitted and the cleared count equals the requested
\* length; when a step of the last range tried failed, the clear operation
\* reports failure too.
C4_SuccessOnlyIfAllSteps ==
    /\ (pc = "dd_returned" /\ ret = 0) => AllStepsSucceeded
    /\ (pc = "dd_done" /\ cmds.returned /\ ~AllStepsSucceeded) => ret # 0

\* the get_cleared calls that reported a count different from the requested
\* length of their range
Shortfalls ==
    {k \in DOMAIN calls :
        /\ calls[k].op = "get_cleared"
        /\ calls[k].length # bbs.bbv[calls[k].range].length}

\* C5: once the clear-error command of range i reported a cleared count
\* different from the requested length, no command is created or submitted for
\* a range after i and the clear operation returns failure.
C5_ShortfallHalts ==
    \A k \in Shortfalls :
        /\ \A j \in DOMAIN calls : calls[j].range <= calls[k].range
        /\ \A j \in DOMAIN calls :
              j > k => calls[j].op \in {"unref_clear_error", "unref_ars_cap"}
        /\ pc = "dd_done" => ret # 0

\* two ranges to clear, the first one cleared short: the operation is over
C5_Witness ==
    /\ pc = "dd_done"
    /\ bbs.bb_cnt = 2
    /\ Shortfalls # {}
    /\ \A k \in Shortfalls : calls[k].range = 1
    /\ ret = -1

----------------------------------------------------------------------------
(* Properties of filesystem-backed clearing *)

\* the fallocate calls issued so far, in order
Fallocates == SelectSeq(calls, LAMBDA c : c.op \in {"punch_hole", "allocate"})

\* the os_close calls issued so far
Closes == SelectSeq(calls, LAMBDA c : c.op = "os_close")

\* C6: the fallocate calls go through the list in order, a hole punch then an
\* allocation of the same (offset, length) for each range; a call is issued
\* only if every call before it succeeded; the first failing call makes the
\* operation return failure; the descriptor a successful open gave is closed
\* once, as the last call, on every path.
C6_PunchThenAllocateInOrder ==
    /\ \A j \in DOMAIN Fallocates :
          LET r == (j + 1) \div 2
          IN  /\ r <= arg.bb_cnt
              /\ Fallocates[j].range = r
              /\ Fallocates[j].op = IF j % 2 = 1 THEN "punch_hole" ELSE "allocate"
              /\ Fallocates[j].offset = arg.bbv[r].offset
              /\ Fallocates[j].length = arg.bbv[r].length
              /\ j < Len(Fallocates) => Fallocates[j].ok
    /\ \A j \in DOMAIN calls :
          (~calls[j].ok) => \A i \in DOMAIN calls : i > j => calls[i].op = "os_close"
    /\ pc = "cf_done" =>
          /\ calls[1].op = "os_open"
          /\ (ret = 0) <=> /\ \A j \in DOMAIN calls : calls[j].ok
                           /\ Len(Fallocates) = 2 * arg.bb_cnt
          /\ ret # 0 => ret = -1
          /\ Len(Closes) = IF calls[1].ok THEN 1 ELSE 0
          /\ calls[1].ok => calls[Len(calls)].op = "os_close"
    /\ pc # "cf_done" => Len(Closes) = 0

\* two ranges, the hole punch of the second one fails: three fallocate calls,
\* then the close, and the operation has returned -1
C6_Witness ==
    /\ pc = "cf_done"
    /\ arg.bb_cnt = 2
    /\ Len(Fallocates) = 3
    /\ Fallocates[1].ok /\ Fallocates[2].ok /\ ~Fallocates[3].ok
    /\ Fallocates[3].op = "punch_hole" /\ Fallocates[3].range = 2
    /\ calls[Len(calls)].op = "os_close"
    /\ ret = -1


----------------------------------------------------------------------------
(* Properties of the sets handed back *)

\* the collection for the path has just returned success to badblocks_get:
\* bbs is the collector's set
CollectorReturned ==
    \/ pc = "extents_count"
    \/ pc = "exit_free_all" /\ bb_found = 0 /\ ~Issued(ExtentCalls)

\* bbs is a set returned with success, by the collector or by badblocks_get
ReturnedWithSuccess == CollectorReturned \/ (pc = "get_done" /\ ret = 0)

\* the set came from badblocks_get_badblocks_by_region
RegionScoped == platform.lookup = "found" /\ platform.ns.mode # "fsdax"

\* C11 as stated: a set returned with success has bb_cnt equal to the number
\* of its records, and with zero records it has ns_resource = 0.
C11_CountAndEmptyResource ==
    ReturnedWithSuccess =>
        /\ bbs.bb_cnt = Len(bbs.bbv)
        /\ Len(bbs.bbv) = 0 => bbs.ns_resource = 0

\* C11 amended: a set returned with success has bb_cnt equal to the number of
\* its records; with zero records its ns_resource is 0 unless it was collected
\* by region, and then it is the namespace's offset in the region plus the
\* region's resource, as for a set with records.
C11_CountAndResource ==
    ReturnedWithSuccess =>
        /\ bbs.bb_cnt = Len(bbs.bbv)
        /\ Len(bbs.bbv) = 0 =>
              bbs.ns_resource = IF RegionScoped
                                THEN WindowBeg + platform.ns.region_resource
                                ELSE 0

\* badblocks_get returned success with an empty set collected by region
C11_Witness ==
    /\ pc = "get_done" /\ ret = 0
    /\ RegionScoped
    /\ bbs.bb_cnt = 0 /\ bbs.bbv = <<>>
    /\ bbs.ns_resource = 4096


----------------------------------------------------------------------------
(* The scenario of one defect and one extent *)

\* badblocks_get has returned success for the scenario's namespace and file
ScenarioDone ==
    /\ pc = "get_done" /\ ret = 0
    /\ platform = ScenarioPlatform
    /\ file = ScenarioFile

\* C12 as stated: for blksize 4096, one defect of 16 sectors at sector
\* 1,000,000 and one extent {500,000,000, 100,000,000, 10,000,000},
\* badblocks_get returns exactly one record {offset 99,500,000, length 8192}.
C12_ScenarioOneRecord ==
    ScenarioDone =>
        /\ bbs.bb_cnt = 1
        /\ Ranges(bbs.bbv) = <<[offset |-> 99500000, length |-> 8192]>>

\* C12 amended: for that defect and extent badblocks_get returns success with
\* an empty set: the defect's bytes 512,000,000..512,008,191 lie beyond the
\* extent's physical bytes 500,000,000..509,999,999.
C12_ScenarioEmpty ==
    ScenarioDone =>
        /\ Ranges(Defects) = <<[offset |-> 512000000, length |-> 8192]>>
        /\ bbs.bb_cnt = 0
        /\ bbs.bbv = <<>>
        /\ bb_found = 0

\* the scenario went through both extent calls and the two loops and returned
C12_Witness ==
    /\ ScenarioDone
    /\ Issued({"os_extents_get"})
    /\ b = 1 /\ e = 1
    /\ bbs.bb_cnt = 0


----------------------------------------------------------------------------
(* Properties of what an operation allocates for itself *)

\* C13: when device-mapped clearing returns, the struct badblocks it allocated
\* for itself has been released, also when the caller supplied the set and the
\* bus lookup failed, and the caller's set has not been released.
C13_OwnReleasedCallerKept ==
    pc = "dd_done" =>
        /\ own.new # "live"
        /\ own.pbbs = "kept"


----------------------------------------------------------------------------
(* Properties of the bus command objects *)

\* badblocks_devdax_clear_one_badblock is at work on range b + 1, or has just
\* returned from it: cmds describes the commands of that range
InClearOne ==
    pc \in {"one_new_ars_cap", "one_submit_ars_cap", "one_get_range",
            "one_new_clear_error", "one_submit_clear_error", "one_get_cleared",
            "out_clear_error", "out_ars_cap", "dd_returned", "crashed"}

\* the calls named op issued for the range being cleared
CallsOf(op) == {k \in DOMAIN calls : calls[k].op = op /\ calls[k].range = b + 1}

\* C14: in clearing one range, a command object is submitted or released only
\* if it was created, never released twice, and when the call returns every
\* command object that was created has been released exactly once.
C14_CommandsPairedWithRelease ==
    InClearOne =>
        /\ CallsOf("submit_ars_cap") \cup CallsOf("unref_ars_cap") # {}
              => cmds.ars_cap \in {"created", "released"}
        /\ CallsOf("submit_clear_error") \cup CallsOf("unref_clear_error") # {}
              => cmds.clear_error \in {"created", "released"}
        /\ Cardinality(CallsOf("unref_ars_cap")) <= 1
        /\ Cardinality(CallsOf("unref_clear_error")) <= 1
        /\ pc = "dd_returned" =>
              /\ cmds.ars_cap # "created"
              /\ cmds.clear_error # "created"
              /\ Cardinality(CallsOf("unref_ars_cap"))
                    = IF cmds.ars_cap = "released" THEN 1 ELSE 0
              /\ Cardinality(CallsOf("unref_clear_error"))
                    = IF cmds.clear_error = "released" THEN 1 ELSE 0

====
